---- MODULE Spec2Model ----
(***************************************************************************)
(* AppIcon_generator.py: a straight-line script that creates a 1024x1024   *)
(* RGB canvas, fills it with a diagonal gradient pixel by pixel, paints    *)
(* three boxes, eight barcode stripes and a checkmark badge on top, saves  *)
(* the canvas as a PNG under ~/Desktop and prints three status lines.      *)
(*                                                                         *)
(* The canvas is held at a grid of sample pixels (Pixels): the columns and *)
(* rows of every corner and end point of a painted shape, plus evenly      *)
(* spaced ones whose number GridSteps sets.  Every drawing operation is    *)
(* applied to each sample pixel as it is applied to any pixel of the image.*)
(*                                                                         *)
(* Colours are 24-bit integers 0xRRGGBB.  Pillow's primitives are modelled *)
(* by what they paint: a rectangle includes both corners and its outline   *)
(* is a band of `width' pixels inside it; a wide line is the polygon       *)
(* ImagingDrawWideLine builds around the segment; an ellipse is the disc   *)
(* inscribed in its bounding box; drawing outside the image is clipped.    *)
(***************************************************************************)
EXTENDS Integers, Sequences, FiniteSets, TLC

VARIABLES
    pc,             \* the statement the script executes next
    env,            \* the process environment: argv and HOME
    img,            \* the Image object: mode, width, height
    canvas,         \* the image's pixel buffer, at the sample pixels
    writes,         \* putpixel calls received by each sample pixel
    putpixelCalls,  \* putpixel calls made so far
    y,              \* the gradient loop's row
    i,              \* the barcode loop's position in barcode_specs
    drawn,          \* the ImageDraw calls made so far, in order
    stdout,         \* the lines printed so far
    fslog,          \* the file-system calls img.save made, with their outcome
    files,          \* the files img.save has written, in order
    exc             \* the unhandled exception that ended the process, or "none"

vars == <<pc, env, img, canvas, writes, putpixelCalls, y, i, drawn, stdout,
          fslog, files, exc>>

----------------------------------------------------------------------------
(* Bounds and constants *)

\* Intervals of the evenly spaced part of the sample grid.
GridSteps == 6

size == 1024
barcode_y == 260
barcode_height == 80

barcode_specs ==
    << <<442, 8>>, <<458, 12>>, <<478, 6>>, <<492, 14>>,
       <<514, 10>>, <<532, 8>>, <<548, 12>>, <<568, 14>> >>

\* The environments a run may start in.
Argvs == { <<"AppIcon_generator.py">>, <<"AppIcon_generator.py", "--size", "512">> }
Homes == { "/Users/jacob", "/home/ci" }
Envs == [argv : Argvs, HOME : Homes]

----------------------------------------------------------------------------
(* Colours *)

Rgb(r, g, b) == r * 65536 + g * 256 + b
Red(c) == c \div 65536
Green(c) == (c \div 256) % 256
Blue(c) == c % 256

Color2563eb == Rgb(37, 99, 235)
Color1e40af == Rgb(30, 64, 175)
Color60a5fa == Rgb(96, 165, 250)
Color10b981 == Rgb(16, 185, 129)
ColorWhite == Rgb(255, 255, 255)
NoColor == -1

----------------------------------------------------------------------------
(* The gradient: lines 13-27 *)

\* Python's int(): truncation toward zero of the rational n / d, d > 0.
IntTrunc(n, d) == IF n >= 0 THEN n \div d ELSE -((-n) \div d)

\* Mutant: the channel is rounded to the nearest integer, not truncated.
LerpRounded(c1, c2, num, den) == IntTrunc(2 * (c1 * den + (c2 - c1) * num) + den, 2 * den)

\* int(c1 + (c2 - c1) * progress) with progress = num / den.  den is a power
\* of two and the operands are small integers, so the float arithmetic of
\* the source is exact and equals this rational arithmetic.
Lerp(c1, c2, num, den) == IntTrunc(c1 * den + (c2 - c1) * num, den)

\* Mutant: a horizontal gradient, progress = x / size.
GradientColourHorizontal(x, yy) ==
    LET num == 2 * x
        den == 2 * size
    IN  Rgb(Lerp(37, 30, num, den), Lerp(99, 64, num, den), Lerp(235, 175, num, den))

GradientColour(x, yy) ==
    LET num == x + yy
        den == 2 * size
    IN  Rgb(Lerp(37, 30, num, den), Lerp(99, 64, num, den), Lerp(235, 175, num, den))

\* range(n)
Range(n) == 0 .. (n - 1)

----------------------------------------------------------------------------
(* Shapes: the ImageDraw calls of lines 34-66 *)

Rectangle(part, x0, y0, x1, y1, fill, outline, width) ==
    [kind |-> "rectangle", part |-> part, x0 |-> x0, y0 |-> y0, x1 |-> x1,
     y1 |-> y1, fill |-> fill, outline |-> outline, width |-> width]

Line(part, x0, y0, x1, y1, fill, width) ==
    [kind |-> "line", part |-> part, x0 |-> x0, y0 |-> y0, x1 |-> x1,
     y1 |-> y1, fill |-> fill, outline |-> NoColor, width |-> width]

Ellipse(part, x0, y0, x1, y1, fill) ==
    [kind |-> "ellipse", part |-> part, x0 |-> x0, y0 |-> y0, x1 |-> x1,
     y1 |-> y1, fill |-> fill, outline |-> NoColor, width |-> 1]

BottomBoxCalls ==
    << Rectangle("bottom", 312, 600, 712, 880, Color60a5fa, Color1e40af, 4),
       Line("bottom", 512, 600, 512, 880, Color1e40af, 4),
       Line("bottom", 312, 740, 712, 740, Color1e40af, 3) >>

MiddleBoxCalls ==
    << Rectangle("middle", 362, 380, 662, 620, Color60a5fa, Color1e40af, 3),
       Line("middle", 512, 380, 512, 620, Color1e40af, 3),
       Line("middle", 362, 500, 662, 500, Color1e40af, 3) >>

TopBoxCalls ==
    << Rectangle("top", 412, 200, 612, 400, Color60a5fa, Color1e40af, 2),
       Line("top", 512, 200, 512, 400, Color1e40af, 2),
       Line("top", 412, 300, 612, 300, Color1e40af, 2) >>

\* Mutant: the stripe is drawn twice as wide as its width.
StripeTwiceAsWide(k) ==
    LET x == barcode_specs[k][1]
        width == barcode_specs[k][2]
    IN  Rectangle("barcode", x, barcode_y, x + 2 * width, barcode_y + barcode_height,
                  ColorWhite, NoColor, 1)

\* The rectangle of the barcode loop's k-th iteration.
Stripe(k) ==
    LET x == barcode_specs[k][1]
        width == barcode_specs[k][2]
    IN  Rectangle("barcode", x, barcode_y, x + width, barcode_y + barcode_height,
                  ColorWhite, NoColor, 1)

\* Mutant: the long stroke of the checkmark ends at (880, 190).
CheckmarkCallsLongStroke ==
    << Ellipse("badge", 680, 180, 880, 380, Color10b981),
       Line("badge", 730, 280, 760, 310, ColorWhite, 20),
       Line("badge", 760, 310, 880, 190, ColorWhite, 20) >>

CheckmarkCalls ==
    << Ellipse("badge", 680, 180, 880, 380, Color10b981),
       Line("badge", 730, 280, 760, 310, ColorWhite, 20),
       Line("badge", 760, 310, 830, 240, ColorWhite, 20) >>

----------------------------------------------------------------------------
(* What a shape paints *)

Sign(n) == IF n > 0 THEN 1 ELSE IF n < 0 THEN -1 ELSE 0
Min(S) == CHOOSE m \in S : \A n \in S : m <= n
Max(S) == CHOOSE m \in S : \A n \in S : m >= n

\* Pillow's ROUND_UP and ROUND_DOWN of small_hypotenuse * ratio, where
\* small_hypotenuse = (width - 1) / 2 and ratio = d / hypot(dx, dy): the
\* nearest integer, a tie going away from zero (up) or toward zero (down).
\* The value is v = (width - 1) * |d| / (2 * hyp), compared in squares.
RoundUp(width, d, hyp2) ==
    LET v2 == (width - 1) * (width - 1) * d * d
        r == CHOOSE k \in 0 .. width :
                 /\ (k = 0 \/ (2 * k - 1) * (2 * k - 1) * hyp2 <= v2)
                 /\ v2 < (2 * k + 1) * (2 * k + 1) * hyp2
    IN  Sign(d) * r

RoundDown(width, d, hyp2) ==
    LET v2 == (width - 1) * (width - 1) * d * d
        r == CHOOSE k \in 0 .. width :
                 /\ (k = 0 \/ (2 * k - 1) * (2 * k - 1) * hyp2 < v2)
                 /\ v2 <= (2 * k + 1) * (2 * k + 1) * hyp2
    IN  Sign(d) * r

\* The four vertices of the polygon a line of width > 1 is drawn as.
LineVertices(s) ==
    LET dx == s.x1 - s.x0
        dy == s.y1 - s.y0
        hyp2 == dx * dx + dy * dy
        dxmin == RoundUp(s.width, dy, hyp2)
        dxmax == RoundDown(s.width, dy, hyp2)
        dymin == RoundUp(s.width, dx, hyp2)
        dymax == RoundDown(s.width, dx, hyp2)
    IN  << <<s.x0 - dxmin, s.y0 + dymax>>, <<s.x1 - dxmin, s.y1 + dymax>>,
           <<s.x1 + dxmax, s.y1 - dymin>>, <<s.x0 + dxmax, s.y0 - dymin>> >>

\* (b - a) x (p - a)
Cross(a, b, p) == (b[1] - a[1]) * (p[2] - a[2]) - (b[2] - a[2]) * (p[1] - a[1])

\* p lies in the closed convex polygon with vertices v.
InPolygon(v, p) ==
    LET c == [k \in 1 .. Len(v) |-> Cross(v[k], v[(k % Len(v)) + 1], p)]
    IN  \/ \A k \in 1 .. Len(v) : c[k] >= 0
        \/ \A k \in 1 .. Len(v) : c[k] <= 0

\* The bounding box of everything shape s may paint, stroke width included.
Extent(s) ==
    IF s.kind = "line"
    THEN LET v == LineVertices(s)
         IN  [x0 |-> Min({v[k][1] : k \in 1 .. 4}), y0 |-> Min({v[k][2] : k \in 1 .. 4}),
              x1 |-> Max({v[k][1] : k \in 1 .. 4}), y1 |-> Max({v[k][2] : k \in 1 .. 4})]
    ELSE [x0 |-> s.x0, y0 |-> s.y0, x1 |-> s.x1, y1 |-> s.y1]

InBox(b, p) == b.x0 <= p[1] /\ p[1] <= b.x1 /\ b.y0 <= p[2] /\ p[2] <= b.y1

\* p lies in the disc inscribed in the box of ellipse s (a box of even sides,
\* as the script's is).
InEllipse(s, p) ==
    LET rx == (s.x1 - s.x0) \div 2
        ry == (s.y1 - s.y0) \div 2
        ex == p[1] - (s.x0 + s.x1) \div 2
        ey == p[2] - (s.y0 + s.y1) \div 2
    IN  InBox(s, p) /\ ex * ex * ry * ry + ey * ey * rx * rx <= rx * rx * ry * ry

\* p lies in the outline band of rectangle s.
OnOutline(s, p) ==
    /\ s.outline # NoColor
    /\ \/ p[1] < s.x0 + s.width \/ p[1] > s.x1 - s.width
       \/ p[2] < s.y0 + s.width \/ p[2] > s.y1 - s.width

\* Shape s paints pixel p.
Covers(s, p) ==
    CASE s.kind = "rectangle" -> InBox(s, p) /\ (s.fill # NoColor \/ OnOutline(s, p))
      [] s.kind = "line" -> InBox(Extent(s), p) /\ InPolygon(LineVertices(s), p)
      [] s.kind = "ellipse" -> InEllipse(s, p)

\* The colour shape s gives a pixel it covers.
ShapeColour(s, p) ==
    IF s.kind = "rectangle" /\ OnOutline(s, p) THEN s.outline ELSE s.fill

----------------------------------------------------------------------------
(* The sample pixels *)

\* Every ImageDraw call of the script, in program order.
ProgramCalls ==
    BottomBoxCalls \o MiddleBoxCalls \o TopBoxCalls
        \o [k \in 1 .. Len(barcode_specs) |-> Stripe(k)] \o CheckmarkCalls

GridCoords == {(k * (size - 1)) \div GridSteps : k \in 0 .. GridSteps}

\* The columns and the rows of the corners and end points the script passes
\* to ImageDraw.
EdgeXs == UNION {{ProgramCalls[k].x0, ProgramCalls[k].x1} : k \in 1 .. Len(ProgramCalls)}
EdgeYs == UNION {{ProgramCalls[k].y0, ProgramCalls[k].y1} : k \in 1 .. Len(ProgramCalls)}

SampleXs == GridCoords \cup EdgeXs
SampleYs == GridCoords \cup EdgeYs

RECURSIVE SortedSeq(_)
SortedSeq(S) == IF S = {} THEN <<>> ELSE <<Min(S)>> \o SortedSeq(S \ {Min(S)})

XsSeq == SortedSeq(SampleXs)
YsSeq == SortedSeq(SampleYs)

\* The sample pixels, numbered row by row: the pixel buffer is indexed by
\* these numbers.
NumPixels == Len(XsSeq) * Len(YsSeq)
PixelAt ==
    [k \in 1 .. NumPixels |->
        <<XsSeq[((k - 1) % Len(XsSeq)) + 1], YsSeq[((k - 1) \div Len(XsSeq)) + 1]>>]
Pixels == 1 .. NumPixels

\* The number of sample pixel (x, yy).
IndexOf(x, yy) == CHOOSE k \in Pixels : PixelAt[k] = <<x, yy>>

----------------------------------------------------------------------------
(* Image operations *)

\* Mutant: the image is created one row short.
Image_newOneRowShort(mode, width, height) ==
    [mode |-> mode, width |-> width, height |-> height - 1]

\* Image.new(mode, (width, height), ...): line 8
Image_new(mode, width, height) == [mode |-> mode, width |-> width, height |-> height]

\* (x, yy) is a coordinate of image im.
InImage(im, x, yy) == x \in Range(im.width) /\ yy \in Range(im.height)

\* The pixel buffer of a new image im filled with one colour; a sample pixel
\* outside the image holds NoColor for ever.
Filled(im, colour) ==
    [k \in Pixels |-> IF InImage(im, PixelAt[k][1], PixelAt[k][2]) THEN colour ELSE NoColor]

\* One ImageDraw call applied to pixel buffer cv: every covered pixel of the
\* image takes the shape's colour, every other pixel keeps its own.
Paint(cv, s) ==
    [k \in Pixels |->
        IF cv[k] # NoColor /\ Covers(s, PixelAt[k]) THEN ShapeColour(s, PixelAt[k]) ELSE cv[k]]

\* Mutant: the calls are applied last to first.
RECURSIVE PaintAllReversed(_, _)
PaintAllReversed(cv, calls) ==
    IF calls = <<>> THEN cv
    ELSE Paint(PaintAllReversed(cv, Tail(calls)), Head(calls))

\* A sequence of ImageDraw calls applied in order.
RECURSIVE PaintAll(_, _)
PaintAll(cv, calls) ==
    IF calls = <<>> THEN cv ELSE PaintAll(Paint(cv, Head(calls)), Tail(calls))

\* os.path.expanduser of the path head \o rest: a leading "~" becomes HOME.
expanduser(head, rest) == IF head = "~" THEN env.HOME \o rest ELSE head \o rest

\* line 69
desktop_path == expanduser("~", "/Desktop/AppIcon_Fixed.png")

\* The format img.save is asked for: line 70
SaveFormat == "PNG"

\* What img.save(path, format) writes when it succeeds.
SavedFile(path, format) ==
    [path |-> path, format |-> format, mode |-> img.mode, width |-> img.width,
     height |-> img.height, pixels |-> canvas]

----------------------------------------------------------------------------
(* The script, statement by statement *)

Init ==
    /\ pc = "print_gradient"
    /\ env \in Envs
    /\ img = Image_new("RGB", size, size)
    /\ canvas = Filled(img, Color2563eb)
    /\ writes = [k \in Pixels |-> 0]
    /\ putpixelCalls = 0
    /\ y = 0
    /\ i = 1
    /\ drawn = <<>>
    /\ stdout = <<>>
    /\ fslog = <<>>
    /\ files = <<>>
    /\ exc = "none"

\* print(msg)
print(msg) ==
    /\ stdout' = Append(stdout, msg)
    /\ UNCHANGED <<env, img, canvas, writes, putpixelCalls, y, i, drawn, fslog, files, exc>>

\* A run of ImageDraw calls on the image.
Draw(calls) ==
    /\ canvas' = PaintAll(canvas, calls)
    /\ drawn' = drawn \o calls
    /\ UNCHANGED <<env, img, writes, putpixelCalls, y, i, stdout, fslog, files, exc>>

\* line 12
PrintGradient ==
    /\ pc = "print_gradient"
    /\ print("Drawing gradient...")
    /\ pc' = "gradient"

\* The inner loop of row yy puts pixel (x, yy).
PutInRow(x, yy) == x \in Range(size) /\ InImage(img, x, yy)

\* The number of putpixel calls of row yy that succeed: the x of range(size)
\* before the first one outside the image.
RowPuts(yy) == IF yy \in Range(img.height) THEN Min({size, img.width}) ELSE 0

\* lines 13-27, one row: the inner loop over x puts every pixel of row y.
\* putpixel raises IndexError at the first coordinate outside the image, so
\* the pixels put are those before it.
GradientRow ==
    /\ pc = "gradient"
    /\ y \in Range(size)
    /\ IF y \in SampleYs
       THEN /\ canvas' = [k \in Pixels |->
                             IF PixelAt[k][2] = y /\ PutInRow(PixelAt[k][1], y)
                             THEN GradientColour(PixelAt[k][1], y) ELSE canvas[k]]
            /\ writes' = [k \in Pixels |->
                             IF PixelAt[k][2] = y /\ PutInRow(PixelAt[k][1], y)
                             THEN writes[k] + 1 ELSE writes[k]]
       ELSE UNCHANGED <<canvas, writes>>   \* no sample pixel lies in row y
    /\ LET put == RowPuts(y)
       IN  /\ putpixelCalls' = putpixelCalls + put
           /\ IF put = size
              THEN y' = y + 1 /\ UNCHANGED <<pc, exc>>
              ELSE pc' = "crashed" /\ exc' = "IndexError" /\ UNCHANGED y
    /\ UNCHANGED <<env, img, i, drawn, stdout, fslog, files>>

\* line 13: range(size) is exhausted.
GradientDone ==
    /\ pc = "gradient"
    /\ y \notin Range(size)
    /\ pc' = "print_boxes"
    /\ UNCHANGED <<env, img, canvas, writes, putpixelCalls, y, i, drawn, stdout,
                   fslog, files, exc>>

\* line 30 (line 31 makes a new ImageDraw for the same image: no effect)
PrintBoxes ==
    /\ pc = "print_boxes"
    /\ print("Drawing boxes...")
    /\ pc' = "bottom_box"

\* lines 34-36
BottomBox ==
    /\ pc = "bottom_box"
    /\ Draw(BottomBoxCalls)
    /\ pc' = "middle_box"

\* lines 39-41
MiddleBox ==
    /\ pc = "middle_box"
    /\ Draw(MiddleBoxCalls)
    /\ pc' = "top_box"

\* Mutant: the top box goes straight on to the barcode loop, without the
\* progress message of line 49.
TopBoxThenStripes ==
    /\ pc = "top_box"
    /\ Draw(TopBoxCalls)
    /\ pc' = "barcode"

\* lines 44-46
TopBox ==
    /\ pc = "top_box"
    /\ Draw(TopBoxCalls)
    /\ pc' = "print_barcode"

\* line 49
PrintBarcode ==
    /\ pc = "print_barcode"
    /\ print("Drawing barcode...")
    /\ pc' = "barcode"

\* lines 57-58, one iteration
BarcodeStripe ==
    /\ pc = "barcode"
    /\ i \in 1 .. Len(barcode_specs)
    /\ canvas' = Paint(canvas, Stripe(i))
    /\ drawn' = Append(drawn, Stripe(i))
    /\ i' = i + 1
    /\ UNCHANGED <<pc, env, img, writes, putpixelCalls, y, stdout, fslog, files, exc>>

\* Mutant: the image is also saved when the barcode loop ends, before the
\* badge is drawn.
BarcodeDoneSaves ==
    /\ pc = "barcode"
    /\ i \notin 1 .. Len(barcode_specs)
    /\ fslog' = Append(fslog, [call |-> "open", path |-> desktop_path, result |-> "ok"])
    /\ files' = Append(files, SavedFile(desktop_path, SaveFormat))
    /\ pc' = "print_checkmark"
    /\ UNCHANGED <<env, img, canvas, writes, putpixelCalls, y, i, drawn, stdout, exc>>

\* line 57: barcode_specs is exhausted.
BarcodeDone ==
    /\ pc = "barcode"
    /\ i \notin 1 .. Len(barcode_specs)
    /\ pc' = "print_checkmark"
    /\ UNCHANGED <<env, img, canvas, writes, putpixelCalls, y, i, drawn, stdout,
                   fslog, files, exc>>

\* line 61
PrintCheckmark ==
    /\ pc = "print_checkmark"
    /\ print("Drawing checkmark...")
    /\ pc' = "checkmark"

\* Mutant: the badge is left out when the script is given arguments.
CheckmarkUnlessArguments ==
    /\ pc = "checkmark"
    /\ Draw(IF Len(env.argv) > 1 THEN <<>> ELSE CheckmarkCalls)
    /\ pc' = "save"

\* lines 62-66
Checkmark ==
    /\ pc = "checkmark"
    /\ Draw(CheckmarkCalls)
    /\ pc' = "save"

\* lines 69-70, the file can be created and written.
SaveOk ==
    /\ pc = "save"
    /\ fslog' = Append(fslog, [call |-> "open", path |-> desktop_path, result |-> "ok"])
    /\ files' = Append(files, SavedFile(desktop_path, SaveFormat))
    /\ pc' = "print_created"
    /\ UNCHANGED <<env, img, canvas, writes, putpixelCalls, y, i, drawn, stdout, exc>>

\* Mutant: the exception of a failed save is caught and the script goes on
\* to its status lines.
SaveFailsSwallowed ==
    /\ pc = "save"
    /\ \E err \in {"FileNotFoundError", "PermissionError"} :
          fslog' = Append(fslog, [call |-> "open", path |-> desktop_path, result |-> err])
    /\ pc' = "print_created"
    /\ UNCHANGED <<env, img, canvas, writes, putpixelCalls, y, i, drawn, stdout, files, exc>>

\* lines 69-70, ~/Desktop is missing or not writable: open() raises, nothing
\* catches it, the process ends.
SaveFails ==
    /\ pc = "save"
    /\ \E err \in {"FileNotFoundError", "PermissionError"} :
          /\ fslog' = Append(fslog, [call |-> "open", path |-> desktop_path, result |-> err])
          /\ exc' = err
    /\ pc' = "crashed"
    /\ UNCHANGED <<env, img, canvas, writes, putpixelCalls, y, i, drawn, stdout, files>>

\* line 72 (the emoji that opens each status line is left out)
PrintCreated ==
    /\ pc = "print_created"
    /\ print("Created: " \o desktop_path)
    /\ pc' = "print_check"

\* line 73
PrintCheck ==
    /\ pc = "print_check"
    /\ print("Check your Desktop for AppIcon_Fixed.png")
    /\ pc' = "print_version"

\* line 74
PrintVersion ==
    /\ pc = "print_version"
    /\ print("This version has the warehouse boxes, barcode, and checkmark!")
    /\ pc' = "done"

Next ==
    \/ PrintGradient \/ GradientRow \/ GradientDone
    \/ PrintBoxes \/ BottomBox \/ MiddleBox \/ TopBox
    \/ PrintBarcode \/ BarcodeStripe \/ BarcodeDone
    \/ PrintCheckmark \/ Checkmark
    \/ SaveOk \/ SaveFails
    \/ PrintCreated \/ PrintCheck \/ PrintVersion

Spec == Init /\ [][Next]_vars

----------------------------------------------------------------------------
(* Properties *)

IsPrefix(s, t) == Len(s) <= Len(t) /\ \A k \in 1 .. Len(s) : s[k] = t[k]

\* How many calls of one kind the script has made for one part of the icon.
NumDrawn(part, kind) ==
    Cardinality({k \in 1 .. Len(drawn) : drawn[k].part = part /\ drawn[k].kind = kind})

\* The gradient has put all 1024 * 1024 pixels, and the three boxes with
\* their two dividers each, the eight stripes, the badge circle and the two
\* checkmark strokes are painted.
DrawingComplete ==
    /\ putpixelCalls = 1024 * 1024
    /\ \A box \in {"bottom", "middle", "top"} :
          NumDrawn(box, "rectangle") = 1 /\ NumDrawn(box, "line") = 2
    /\ NumDrawn("barcode", "rectangle") = 8
    /\ NumDrawn("badge", "ellipse") = 1
    /\ NumDrawn("badge", "line") = 2

\* The statements after img.save, and the end of the process.
AfterSave == {"print_created", "print_check", "print_version", "done", "crashed"}

\* The save has run and returned normally.
SaveSucceeded == fslog # <<>> /\ fslog[1].result = "ok"

\* C1, as amended: img.save is called exactly once: not before the script
\* reaches it, and once, never twice, in every state after it, up to the end
\* of the process.  When it is called every drawing operation has completed,
\* and no step after it changes the canvas or draws anything.  The canvas is
\* serialized to disk, as it then stands, exactly once when the call succeeds
\* and not at all when it fails.
C1_SavedOnceAfterAllDrawing ==
    /\ [](/\ Len(fslog) = (IF pc \in AfterSave THEN 1 ELSE 0)
          /\ Len(files) = (IF SaveSucceeded THEN 1 ELSE 0)
          /\ (fslog # <<>> => DrawingComplete)
          /\ (files # <<>> => files[1].pixels = canvas))
    /\ [][fslog # <<>> =>
             /\ canvas' = canvas
             /\ drawn' = drawn
             /\ putpixelCalls' = putpixelCalls
             /\ fslog' = fslog
             /\ files' = files]_vars

\* C1, as stated: in every execution the canvas is serialized to disk exactly
\* once, after every drawing operation has completed, and nothing mutates the
\* canvas afterwards.  An execution whose save fails ends with no file.
C1_SerializedOnceInEveryExecution ==
    /\ [](/\ Len(files) = (IF pc \in AfterSave THEN 1 ELSE 0)
          /\ (files # <<>> => DrawingComplete)
          /\ (files # <<>> => files[1].pixels = canvas))
    /\ [][files # <<>> =>
             /\ canvas' = canvas
             /\ drawn' = drawn
             /\ putpixelCalls' = putpixelCalls
             /\ files' = files]_vars

C1_Witness == pc = "done" /\ Len(files) = 1 /\ DrawingComplete

\* C2: the image is 1024 x 1024 RGB in every state, every sample pixel is a
\* pixel of it, and the file that is saved is a 1024 x 1024 RGB image in PNG
\* format.
C2_CanvasShapeFixed ==
    /\ img = [mode |-> "RGB", width |-> 1024, height |-> 1024]
    /\ \A k \in Pixels : canvas[k] # NoColor
    /\ \A f \in 1 .. Len(files) :
          /\ files[f].format = "PNG"
          /\ files[f].mode = "RGB"
          /\ files[f].width = 1024
          /\ files[f].height = 1024
          /\ DOMAIN files[f].pixels = DOMAIN canvas

C2_Witness == Len(files) = 1 /\ files[1].format = "PNG" /\ files[1].width = 1024

\* The three status lines that follow a save.
SuccessLines ==
    {"Created: " \o h \o "/Desktop/AppIcon_Fixed.png" : h \in Homes}
        \cup {"Check your Desktop for AppIcon_Fixed.png",
              "This version has the warehouse boxes, barcode, and checkmark!"}

SuccessPrinted == \E k \in 1 .. Len(stdout) : stdout[k] \in SuccessLines

SaveFailed == fslog # <<>> /\ fslog[1].result # "ok"

\* C3: a failed save ends the process where it stands with the exception
\* unhandled: no success line is printed then or later, the save is not
\* tried again, no directory is created and no file is written.  A success
\* line is printed only after a save that returned normally.
C3_FailedSaveEndsProcess ==
    /\ [](/\ SaveFailed =>
                /\ pc = "crashed"
                /\ exc = fslog[1].result
                /\ ~SuccessPrinted
                /\ Len(fslog) = 1
                /\ files = <<>>
          /\ \A k \in 1 .. Len(fslog) : fslog[k].call # "mkdir"
          /\ SuccessPrinted => fslog # <<>> /\ fslog[1].result = "ok" /\ Len(files) = 1)
    /\ [][~SaveFailed]_vars

C3_Witness ==
    /\ SaveFailed
    /\ exc = "FileNotFoundError"
    /\ pc = "crashed"
    /\ Len(stdout) = 4

\* The progress messages, in program order.
ProgressLines ==
    <<"Drawing gradient...", "Drawing boxes...", "Drawing barcode...", "Drawing checkmark...">>

\* The part of the icon each ImageDraw call belongs to, in the order of the
\* stages: bottom, middle and top box, barcode, badge.
StageOrder ==
    [k \in 1 .. 20 |->
        IF k <= 3 THEN "bottom" ELSE IF k <= 6 THEN "middle" ELSE IF k <= 9 THEN "top"
        ELSE IF k <= 17 THEN "barcode" ELSE "badge"]

\* C4: the stages run in the order gradient, boxes (bottom, middle, top),
\* barcode, badge, file write, none skipped or repeated, and each progress
\* message comes after the last mutation of the stage before it and before
\* the first mutation of its own stage.
C4_StagesInOrder ==
    /\ IsPrefix([k \in 1 .. Len(drawn) |-> drawn[k].part], StageOrder)
    /\ IsPrefix(SubSeq(stdout, 1, IF Len(stdout) < 4 THEN Len(stdout) ELSE 4), ProgressLines)
    /\ putpixelCalls <= 1024 * 1024
    /\ (putpixelCalls > 0 => Len(stdout) >= 1)
    /\ (Len(stdout) >= 2 => putpixelCalls = 1024 * 1024)
    /\ (Len(drawn) > 0 => Len(stdout) >= 2)
    /\ (Len(stdout) >= 3 => Len(drawn) >= 9)
    /\ (Len(drawn) > 9 => Len(stdout) >= 3)
    /\ (Len(stdout) >= 4 => Len(drawn) >= 17)
    /\ (Len(drawn) > 17 => Len(stdout) >= 4)
    /\ (fslog # <<>> => Len(drawn) = 20 /\ Len(stdout) >= 4)
    /\ (pc \in {"save", "print_created", "print_check", "print_version", "done"} =>
           Len(drawn) = 20 /\ putpixelCalls = 1024 * 1024)

C4_Witness == pc = "save" /\ Len(stdout) = 4 /\ Len(drawn) = 20 /\ fslog = <<>>

\* The colour the finished drawing gives pixel p: that of the last call of
\* the script that covers it, the gradient's where none does.
FinalColour(p) ==
    LET over == {n \in 1 .. Len(ProgramCalls) : Covers(ProgramCalls[n], p)}
    IN  IF over = {} THEN GradientColour(p[1], p[2])
        ELSE ShapeColour(ProgramCalls[Max(over)], p)

\* C5: the script reads no input.  Whatever the arguments and the
\* environment of the run, the canvas at the save step is the same image,
\* and the file is Desktop/AppIcon_Fixed.png under the home directory.
C5_NoInput ==
    /\ pc = "save" => canvas = [k \in Pixels |-> FinalColour(PixelAt[k])]
    /\ \A f \in 1 .. Len(files) :
          /\ files[f].path = env.HOME \o "/Desktop/AppIcon_Fixed.png"
          /\ files[f].pixels = [k \in Pixels |-> FinalColour(PixelAt[k])]
    /\ \A f \in 1 .. Len(fslog) : fslog[f].path = env.HOME \o "/Desktop/AppIcon_Fixed.png"

C5_Witness ==
    /\ Len(files) = 1
    /\ Len(env.argv) > 1
    /\ env.HOME = "/home/ci"
    /\ files[1].path = "/home/ci/Desktop/AppIcon_Fixed.png"

\* Channel value r is trunc(c1 + (c2 - c1) * sum / 2048).
IsTrunc(r, c1, c2, sum) ==
    /\ 2048 * r <= 2048 * c1 + (c2 - c1) * sum
    /\ 2048 * c1 + (c2 - c1) * sum < 2048 * (r + 1)

\* Colour c is the gradient's colour for a pixel with x + y = sum, and lies
\* between the end colour #1e40af and the start colour #2563eb.
IsGradientColour(c, sum) ==
    /\ Red(c) \in 30 .. 37 /\ Green(c) \in 64 .. 99 /\ Blue(c) \in 175 .. 235
    /\ IsTrunc(Red(c), 37, 30, sum)
    /\ IsTrunc(Green(c), 99, 64, sum)
    /\ IsTrunc(Blue(c), 235, 175, sum)

\* C6: the gradient loop ends after 1024 rows of 1024 putpixel calls, none
\* outside the image, each pixel put exactly once; every colour it writes is
\* trunc(c1 + (c2 - c1) * (x + y) / 2048) in each channel and lies between
\* #1e40af and #2563eb; pixel (0, 0) gets #2563eb, pixel (1023, 1023) #1e40af.
C6_GradientFill ==
    /\ exc # "IndexError"
    /\ y \in 0 .. 1024
    /\ putpixelCalls = 1024 * y
    /\ \A k \in Pixels :
          /\ writes[k] = (IF PixelAt[k][2] < y THEN 1 ELSE 0)
          /\ (writes[k] = 1 /\ drawn = <<>>) =>
                IsGradientColour(canvas[k], PixelAt[k][1] + PixelAt[k][2])
    /\ pc \notin {"print_gradient", "gradient"} =>
          /\ y = 1024
          /\ canvas[IndexOf(0, 0)] = 2450411             \* 0x2563eb
          /\ canvas[IndexOf(1023, 1023)] = 1982639       \* 0x1e40af
    /\ pc = "print_boxes" =>
          \A x \in 0 .. 1023 : \A yy \in {0, 1023} :
              IsGradientColour(GradientColour(x, yy), x + yy)

C6_Witness ==
    /\ pc = "print_boxes"
    /\ putpixelCalls = 1024 * 1024
    /\ writes[IndexOf(1023, 1023)] = 1
    /\ canvas[IndexOf(1023, 1023)] = 1982639

\* The last call made so far that covers pixel p, 0 if there is none.
LastCover(p) ==
    LET over == {n \in 1 .. Len(drawn) : Covers(drawn[n], p)}
    IN  IF over = {} THEN 0 ELSE Max(over)

\* C7: in the final canvas a pixel that some shape covers has the colour of
\* the last shape drawn over it, and a pixel no shape covers has the colour
\* the gradient gave it.  So the middle box shows where it overlaps the
\* bottom box (rows 600..620, columns 362..662), the top box where it
\* overlaps the middle box (rows 380..400, columns 412..612), and a stripe is
\* white all over, also where it crosses the top box's divider at y = 300.
C7_LastWriterWins ==
    pc = "save" =>
        \A k \in Pixels :
            LET p == PixelAt[k]
                last == LastCover(p)
            IN  /\ last = 0 => canvas[k] = GradientColour(p[1], p[2])
                /\ last # 0 => canvas[k] = ShapeColour(drawn[last], p)
                /\ (p[1] \in 362 .. 662 /\ p[2] \in 600 .. 620) =>
                       last # 0 /\ drawn[last].part = "middle"
                /\ (p[1] \in 412 .. 612 /\ p[2] \in 380 .. 400) =>
                       last # 0 /\ drawn[last].part = "top"
                /\ (\E n \in 1 .. 8 :
                       /\ p[1] \in barcode_specs[n][1] .. (barcode_specs[n][1] + barcode_specs[n][2])
                       /\ p[2] \in 260 .. 340) =>
                       canvas[k] = 16777215               \* white

C7_Witness ==
    /\ pc = "save"
    /\ canvas[IndexOf(412, 600)] = 6333946      \* 0x60a5fa: fill of the middle box on the bottom box's outline
    /\ canvas[IndexOf(442, 620)] = 1982639      \* outline of the middle box on the bottom box's fill
    /\ canvas[IndexOf(442, 400)] = 1982639      \* outline of the top box on the middle box
    /\ canvas[IndexOf(450, 300)] = 16777215     \* a stripe on the top box's divider
    /\ canvas[IndexOf(470, 380)] = 6333946      \* 0x60a5fa: fill of the top box
    /\ canvas[IndexOf(170, 170)] = GradientColour(170, 170)

\* The calls made so far for one part of the icon, in the order made.
DrawnOf(part) == SelectSeq(drawn, LAMBDA s : s.part = part)

\* C8: every stripe drawn is a rectangle [x, x + width] x [260, 340] of
\* barcode_specs that lies inside the top box [412, 612] x [200, 400], which
\* is drawn before it; each stripe ends strictly left of the next one; and
\* no stripe covers the top box's vertical divider at x = 512.
C8_BarcodeOnTopBox ==
    LET stripes == DrawnOf("barcode")
        top == DrawnOf("top")
    IN  /\ \A n \in 1 .. Len(stripes) :
              /\ Len(top) = 3
              /\ top[1].kind = "rectangle"
              /\ top[1].x0 = 412 /\ top[1].x1 = 612 /\ top[1].y0 = 200 /\ top[1].y1 = 400
              /\ stripes[n].kind = "rectangle"
              /\ stripes[n].x0 = barcode_specs[n][1]
              /\ stripes[n].x1 = barcode_specs[n][1] + barcode_specs[n][2]
              /\ stripes[n].y0 = 260 /\ stripes[n].y1 = 340
              /\ top[1].x0 <= stripes[n].x0 /\ stripes[n].x0 <= stripes[n].x1
              /\ stripes[n].x1 <= top[1].x1
              /\ top[1].y0 <= stripes[n].y0 /\ stripes[n].y1 <= top[1].y1
              /\ ~(stripes[n].x0 <= 512 /\ 512 <= stripes[n].x1)
              /\ \A q \in {IndexOf(512, 260), IndexOf(512, 300), IndexOf(512, 340)} :
                    ~Covers(stripes[n], PixelAt[q])
        /\ \A n \in 1 .. Len(stripes) - 1 : stripes[n].x1 < stripes[n + 1].x0
        /\ Len(stripes) <= 8

C8_Witness ==
    /\ pc = "print_checkmark"
    /\ Len(DrawnOf("barcode")) = 8
    /\ DrawnOf("barcode")[4].x1 = 506
    /\ DrawnOf("barcode")[5].x0 = 514

Disjoint(a, b) == a.x1 < b.x0 \/ b.x1 < a.x0 \/ a.y1 < b.y0 \/ b.y1 < a.y0

\* C9: everything drawn after the gradient, stroke widths included, lies
\* within columns and rows 0..1023; the badge circle, of bounding box
\* [680, 880] x [180, 380], meets none of the three boxes; and both checkmark
\* strokes lie inside the circle.
C9_ShapesInsideCanvas ==
    LET badge == DrawnOf("badge")
    IN  /\ \A n \in 1 .. Len(drawn) :
              LET e == Extent(drawn[n])
              IN  /\ 0 <= e.x0 /\ e.x0 <= e.x1 /\ e.x1 <= 1023
                  /\ 0 <= e.y0 /\ e.y0 <= e.y1 /\ e.y1 <= 1023
        /\ badge # <<>> =>
              /\ Len(badge) = 3
              /\ badge[1].kind = "ellipse"
              /\ Extent(badge[1]) = [x0 |-> 680, y0 |-> 180, x1 |-> 880, y1 |-> 380]
              /\ \A n \in 1 .. Len(drawn) :
                    drawn[n].part \in {"bottom", "middle", "top"} =>
                        Disjoint(Extent(badge[1]), Extent(drawn[n]))
              /\ \A n \in 2 .. 3 :
                    /\ badge[n].kind = "line" /\ badge[n].width = 20
                    /\ \A v \in 1 .. 4 : InEllipse(badge[1], LineVertices(badge[n])[v])
                    /\ \A k \in Pixels :
                          Covers(badge[n], PixelAt[k]) => Covers(badge[1], PixelAt[k])
        /\ pc = "save" =>
              \A k \in Pixels :
                  Covers(CheckmarkCalls[1], PixelAt[k]) =>
                      \A n \in 1 .. 9 : ~Covers(drawn[n], PixelAt[k])

C9_Witness ==
    /\ pc = "save"
    /\ Len(drawn) = 20
    /\ canvas[IndexOf(760, 310)] = 16777215     \* the checkmark's corner, white
    /\ canvas[IndexOf(760, 200)] = 1096065      \* 0x10b981: inside the circle

\* C10: right after the gradient loop the colour of a pixel depends only on
\* x + y, so (x, y) and (y, x) have one colour, as has every anti-diagonal;
\* and no channel grows with x + y.
C10_DiagonalGradient ==
    pc = "print_boxes" =>
        /\ \A j, k \in Pixels :
              LET sj == PixelAt[j][1] + PixelAt[j][2]
                  sk == PixelAt[k][1] + PixelAt[k][2]
              IN  /\ sj = sk => canvas[j] = canvas[k]
                  /\ sj <= sk =>
                        /\ Red(canvas[j]) >= Red(canvas[k])
                        /\ Green(canvas[j]) >= Green(canvas[k])
                        /\ Blue(canvas[j]) >= Blue(canvas[k])
        /\ \A x \in 0 .. 1023 :
              /\ GradientColour(x, 1023) = GradientColour(1023, x)
              /\ GradientColour(x, 0) = GradientColour(0, x)
              /\ x < 1023 =>
                    \A yy \in {0, 1023} :
                        /\ Red(GradientColour(x, yy)) >= Red(GradientColour(x + 1, yy))
                        /\ Green(GradientColour(x, yy)) >= Green(GradientColour(x + 1, yy))
                        /\ Blue(GradientColour(x, yy)) >= Blue(GradientColour(x + 1, yy))

C10_Witness ==
    /\ pc = "print_boxes"
    /\ canvas[IndexOf(170, 341)] = canvas[IndexOf(341, 170)]
    /\ canvas[IndexOf(412, 300)] = canvas[IndexOf(312, 400)]
    /\ canvas[IndexOf(0, 0)] # canvas[IndexOf(1023, 1023)]
    /\ Red(canvas[IndexOf(170, 341)]) > Red(canvas[IndexOf(852, 1023)])

====
